---- MODULE Spec2Model ----
(***************************************************************************)
(* Model of the CNN repository: the GoogLeNet assembler and its layer      *)
(* blocks (utils/GoogLeNet.py), the model factory and loader               *)
(* (utils/model.py) and the TFLite inference script (infer_tflite.py).     *)
(*                                                                         *)
(* A computation graph is a sequence of layer nodes; a tensor is the index *)
(* of the node that produced it.  Shapes are <<batch, height, width,       *)
(* channels>> or <<batch, features>>.  Real-valued hyperparameters (loss   *)
(* weights, learning rates, momentum, dropout rates) are written in        *)
(* thousandths: 1.0 is 1000, 0.3 is 300, 0.01 is 10.                       *)
(***************************************************************************)
EXTENDS Integers, Sequences, FiniteSets, TLC

VARIABLES
    MODEL_TYPE,   \* Cfg.MODEL_TYPE, fixed when the process starts
    GOOGLE_NET_INPUT_SIZE, \* Cfg.GOOGLE_NET_INPUT_SIZE
    pc,           \* "start", "returned" or "raised"
    call,         \* the entry point that ran and its arguments
    events,       \* calls made to collaborators, in program order
    graph,        \* nodes of the graph the call built
    result,       \* what the call returned
    raised        \* message of the exception that ended the call, or ""

vars == <<MODEL_TYPE, GOOGLE_NET_INPUT_SIZE, pc, call, events, graph, result, raised>>

----------------------------------------------------------------------------
(* Bounds of the inputs *)

MaxFilters == 2
MaxClasses == 2

FilterTriples == {<<a, b, c>> : a \in 1..MaxFilters, b \in 1..MaxFilters, c \in 1..MaxFilters}

\* Input feature maps handed to the block primitives: sides below, at and
\* above the largest kernel (5), square and not, one or two images, channel
\* counts inside and outside the filter range.
FeatureMaps ==
    {<<n, hw[1], hw[2], c>> :
        n \in {1, 2},
        hw \in {<<3, 5>>, <<5, 5>>, <<6, 6>>, <<8, 7>>},
        c \in {1, 3}}

\* Input resolutions for a whole network: around the two thresholds of the
\* valid poolings (64/65 for the auxiliary heads, 192/193 for the 7x7 pool).
InputShapes ==
    {<<0, 0>>, <<1, 1>>, <<32, 32>>, <<64, 64>>, <<65, 65>>, <<192, 192>>,
     <<193, 193>>, <<224, 224>>, <<224, 64>>, <<193, 224>>, <<256, 320>>}

ClassesNumbers == (-1 .. MaxClasses) \cup {10}

\* Quantised probabilities of an output tensor.
ProbLevels == {0, 1}

----------------------------------------------------------------------------
(* The framework's layers: what each one does to the graph and the shape *)

CeilDiv(a, b) == (a + b - 1) \div b

\* Output length of one spatial axis of a convolution or pooling window.
WindowOut(n, k, s, padding) ==
    IF padding = "same" THEN CeilDiv(n, s) ELSE ((n - k) \div s) + 1

\* A new node; via is the line of the statement of the running method that
\* led to it: its own line, or the line of the method call it was made in.
Emit(env, node) ==
    [env EXCEPT !.nodes =
        Append(@, node @@ [via |-> IF env.via = 0 THEN node.at ELSE env.via])]

Fail(env, msg) == [env EXCEPT !.err = msg]

Last(env) == Len(env.nodes)

ShapeOf(env, t) == env.nodes[t].shape

\* The window does not fit (valid padding) or the output would be empty.
WindowFails(s, k, strides, padding) ==
    \/ padding = "valid" /\ (s[2] < k[1] \/ s[3] < k[2])
    \/ WindowOut(s[2], k[1], strides[1], padding) <= 0
    \/ WindowOut(s[3], k[2], strides[2], padding) <= 0

Input(env, shape, at) ==
    IF env.err # "" THEN env
    ELSE Emit(env, [layer |-> "Input", at |-> at, inputs |-> <<>>,
                    shape |-> <<env.batch>> \o shape])

Conv2D(env, x, filters, kernel_size, strides, padding, at) ==
    IF env.err # "" THEN env
    ELSE LET s == ShapeOf(env, x) IN
         IF Len(s) # 4 THEN Fail(env, "ValueError: Conv2D expects a rank-4 input")
         ELSE IF filters <= 0 THEN Fail(env, "ValueError: invalid filters")
         ELSE IF WindowFails(s, kernel_size, strides, padding)
              THEN Fail(env, "ValueError: negative or zero output dimension")
         ELSE Emit(env, [layer |-> "Conv2D", at |-> at, inputs |-> <<x>>,
                         filters |-> filters, kernel_size |-> kernel_size,
                         strides |-> strides, padding |-> padding,
                         shape |-> <<s[1],
                                     WindowOut(s[2], kernel_size[1], strides[1], padding),
                                     WindowOut(s[3], kernel_size[2], strides[2], padding),
                                     filters>>])

Pooling2D(layer, env, x, pool_size, strides, padding, at) ==
    IF env.err # "" THEN env
    ELSE LET s == ShapeOf(env, x) IN
         IF Len(s) # 4 THEN Fail(env, "ValueError: pooling expects a rank-4 input")
         ELSE IF padding = "valid" /\ (s[2] < pool_size[1] \/ s[3] < pool_size[2])
              THEN Fail(env, "ValueError: negative dimension size")
         ELSE Emit(env, [layer |-> layer, at |-> at, inputs |-> <<x>>,
                         pool_size |-> pool_size, strides |-> strides,
                         padding |-> padding,
                         shape |-> <<s[1],
                                     WindowOut(s[2], pool_size[1], strides[1], padding),
                                     WindowOut(s[3], pool_size[2], strides[2], padding),
                                     s[4]>>])

MaxPooling2D(env, x, pool_size, strides, padding, at) ==
    Pooling2D("MaxPooling2D", env, x, pool_size, strides, padding, at)

AveragePooling2D(env, x, pool_size, strides, padding, at) ==
    Pooling2D("AveragePooling2D", env, x, pool_size, strides, padding, at)

RECURSIVE Product(_, _)
Product(s, i) == IF i > Len(s) THEN 1 ELSE s[i] * Product(s, i + 1)

Flatten(env, x, at) ==
    IF env.err # "" THEN env
    ELSE LET s == ShapeOf(env, x) IN
         Emit(env, [layer |-> "Flatten", at |-> at, inputs |-> <<x>>,
                    shape |-> <<s[1], Product(s, 2)>>])

Dropout(env, x, rate, at) ==
    IF env.err # "" THEN env
    ELSE Emit(env, [layer |-> "Dropout", at |-> at, inputs |-> <<x>>,
                    rate |-> rate, shape |-> ShapeOf(env, x)])

\* A Dense layer rejects a negative width.  Whether it rejects a width of
\* zero depends on the framework release (env.zero_units_ok).
Dense(env, x, units, activation, name, at) ==
    IF env.err # "" THEN env
    ELSE LET s == ShapeOf(env, x) IN
         IF units < 0 \/ (units = 0 /\ ~env.zero_units_ok)
         THEN Fail(env, "ValueError: invalid units")
         ELSE Emit(env, [layer |-> "Dense", at |-> at, inputs |-> <<x>>,
                         units |-> units, activation |-> activation,
                         name |-> name,
                         shape |-> SubSeq(s, 1, Len(s) - 1) \o <<units>>])

\* Index of a Python axis (negative counts from the end) into a shape.
AxisIndex(axis, rank) == IF axis < 0 THEN rank + axis + 1 ELSE axis + 1

Without(s, i) == SubSeq(s, 1, i - 1) \o SubSeq(s, i + 1, Len(s))

RECURSIVE SumAxis(_, _, _, _)
SumAxis(env, xs, i, k) ==
    IF k > Len(xs) THEN 0
    ELSE ShapeOf(env, xs[k])[i] + SumAxis(env, xs, i, k + 1)

\* concatenate: every input must have the same shape except along the
\* concatenation axis, whose lengths are added.
concatenate(env, xs, axis, at) ==
    IF env.err # "" THEN env
    ELSE LET s == ShapeOf(env, xs[1])
             i == AxisIndex(axis, Len(s))
         IN
         IF \E k \in 1..Len(xs) :
                \/ Len(ShapeOf(env, xs[k])) # Len(s)
                \/ Without(ShapeOf(env, xs[k]), i) # Without(s, i)
         THEN Fail(env, "ValueError: Concatenate requires matching shapes except for the concatenation axis")
         ELSE Emit(env, [layer |-> "Concatenate", at |-> at, inputs |-> xs,
                         axis |-> axis,
                         shape |-> [j \in 1..Len(s) |->
                                      IF j = i THEN SumAxis(env, xs, i, 1) ELSE s[j]]])

----------------------------------------------------------------------------
(* utils/GoogLeNet.py *)
(* Each method is the sequence of its statements, in program order: tgt is
   the local the statement assigns, src (or srcs) the locals it reads.  A
   statement is executed against the graph under construction and the
   method's locals, so a name that is assigned twice holds the later tensor
   from then on. *)

DefaultKernelSize == <<<<1, 1>>, <<3, 3>>, <<5, 5>>>>
DefaultPoolSize == <<3, 3>>

_naive_inception_block_stmts(filters, kernel_size, pool_size) ==
    << [line |-> 29, op |-> "Conv2D", tgt |-> "X_1by1", src |-> "X", filters |-> filters[1],
        kernel_size |-> kernel_size[1], strides |-> <<1, 1>>, padding |-> "valid"],
       [line |-> 32, op |-> "Conv2D", tgt |-> "X_3by3", src |-> "X", filters |-> filters[2],
        kernel_size |-> kernel_size[2], strides |-> <<1, 1>>, padding |-> "valid"],
       [line |-> 35, op |-> "Conv2D", tgt |-> "X_5by5", src |-> "X", filters |-> filters[3],
        kernel_size |-> kernel_size[3], strides |-> <<1, 1>>, padding |-> "valid"],
       [line |-> 38, op |-> "MaxPooling2D", tgt |-> "X_max_pooling", src |-> "X",
        pool_size |-> pool_size, strides |-> <<1, 1>>, padding |-> "same"],
       [line |-> 40, op |-> "concatenate", tgt |-> "X_concat",
        srcs |-> <<"X_1by1", "X_3by3", "X_5by5", "X_max_pooling">>, axis |-> 0] >>

_inception_block_stmts(filters, reduced_filters, kernel_size, pool_size) ==
    << [line |-> 63, op |-> "Conv2D", tgt |-> "X_1by1", src |-> "X", filters |-> filters[1],
        kernel_size |-> kernel_size[1], strides |-> <<1, 1>>, padding |-> "same"],
       [line |-> 67, op |-> "Conv2D", tgt |-> "X_reduced_3by3", src |-> "X",
        filters |-> reduced_filters[1],
        kernel_size |-> <<1, 1>>, strides |-> <<1, 1>>, padding |-> "same"],
       [line |-> 69, op |-> "Conv2D", tgt |-> "X_3by3", src |-> "X_reduced_3by3",
        filters |-> filters[2],
        kernel_size |-> kernel_size[2], strides |-> <<1, 1>>, padding |-> "same"],
       [line |-> 73, op |-> "Conv2D", tgt |-> "X_reduced_5by5", src |-> "X",
        filters |-> reduced_filters[2],
        kernel_size |-> <<1, 1>>, strides |-> <<1, 1>>, padding |-> "same"],
       [line |-> 75, op |-> "Conv2D", tgt |-> "X_5by5", src |-> "X_reduced_5by5",
        filters |-> filters[3],
        kernel_size |-> kernel_size[3], strides |-> <<1, 1>>, padding |-> "same"],
       [line |-> 79, op |-> "MaxPooling2D", tgt |-> "X_max_pooling", src |-> "X",
        pool_size |-> pool_size, strides |-> <<1, 1>>, padding |-> "same"],
       [line |-> 80, op |-> "Conv2D", tgt |-> "X_reduced_5by5", src |-> "X_max_pooling",
        filters |-> reduced_filters[3],
        kernel_size |-> <<1, 1>>, strides |-> <<1, 1>>, padding |-> "same"],
       [line |-> 85, op |-> "concatenate", tgt |-> "X_concat",
        srcs |-> <<"X_1by1", "X_3by3", "X_5by5", "X_reduced_5by5">>, axis |-> -1] >>

_auxiliary_classifier_stmts(self, output_name) ==
    << [line |-> 99, op |-> "AveragePooling2D", tgt |-> "X_average_pool", src |-> "X",
        pool_size |-> <<5, 5>>, strides |-> <<3, 3>>, padding |-> "valid"],
       [line |-> 102, op |-> "Conv2D", tgt |-> "X_conv", src |-> "X_average_pool",
        filters |-> 128, kernel_size |-> <<1, 1>>, strides |-> <<1, 1>>, padding |-> "same"],
       [line |-> 106, op |-> "Flatten", tgt |-> "X_flatten", src |-> "X_conv"],
       [line |-> 109, op |-> "Dense", tgt |-> "X_fc", src |-> "X_flatten", units |-> 1024,
        activation |-> "relu", name |-> ""],
       [line |-> 112, op |-> "Dropout", tgt |-> "X_dropout", src |-> "X_fc", rate |-> 700],
       [line |-> 115, op |-> "Dense", tgt |-> "X_aux_output", src |-> "X_dropout",
        units |-> self.classes, activation |-> "softmax", name |-> output_name] >>

\* GoogLeNet.__init__
GoogLeNet(input_shape, classes) == [input_shape |-> input_shape, classes |-> classes]

google_net_stmts(self) ==
    << [line |-> 126, op |-> "Input", tgt |-> "X_input",
        shape |-> <<self.input_shape[1], self.input_shape[2], 3>>],
       [line |-> 129, op |-> "Conv2D", tgt |-> "X", src |-> "X_input", filters |-> 64,
        kernel_size |-> <<7, 7>>, strides |-> <<2, 2>>, padding |-> "same"],
       [line |-> 133, op |-> "MaxPooling2D", tgt |-> "X", src |-> "X",
        pool_size |-> <<3, 3>>, strides |-> <<2, 2>>, padding |-> "same"],
       [line |-> 136, op |-> "Conv2D", tgt |-> "X", src |-> "X", filters |-> 64,
        kernel_size |-> <<1, 1>>, strides |-> <<1, 1>>, padding |-> "valid"],
       [line |-> 140, op |-> "Conv2D", tgt |-> "X", src |-> "X", filters |-> 192,
        kernel_size |-> <<3, 3>>, strides |-> <<1, 1>>, padding |-> "same"],
       [line |-> 144, op |-> "MaxPooling2D", tgt |-> "X", src |-> "X",
        pool_size |-> <<3, 3>>, strides |-> <<2, 2>>, padding |-> "same"],
       [line |-> 147, op |-> "_inception_block", tgt |-> "X", src |-> "X",
        filters |-> <<64, 128, 32>>, reduced_filters |-> <<96, 16, 32>>],
       [line |-> 150, op |-> "_inception_block", tgt |-> "X", src |-> "X",
        filters |-> <<128, 192, 96>>, reduced_filters |-> <<128, 32, 64>>],
       [line |-> 153, op |-> "MaxPooling2D", tgt |-> "X", src |-> "X",
        pool_size |-> <<3, 3>>, strides |-> <<2, 2>>, padding |-> "same"],
       [line |-> 156, op |-> "_inception_block", tgt |-> "X", src |-> "X",
        filters |-> <<192, 208, 48>>, reduced_filters |-> <<96, 16, 64>>],
       [line |-> 159, op |-> "_auxiliary_classifier", tgt |-> "X_aux_1", src |-> "X", self |-> self,
        output_name |-> "output_aux_1"],
       [line |-> 162, op |-> "_inception_block", tgt |-> "X", src |-> "X",
        filters |-> <<160, 224, 64>>, reduced_filters |-> <<112, 24, 64>>],
       [line |-> 165, op |-> "_inception_block", tgt |-> "X", src |-> "X",
        filters |-> <<128, 256, 64>>, reduced_filters |-> <<128, 24, 64>>],
       [line |-> 168, op |-> "_inception_block", tgt |-> "X", src |-> "X",
        filters |-> <<112, 288, 64>>, reduced_filters |-> <<144, 32, 64>>],
       [line |-> 171, op |-> "_auxiliary_classifier", tgt |-> "X_aux_2", src |-> "X", self |-> self,
        output_name |-> "output_aux_2"],
       [line |-> 174, op |-> "_inception_block", tgt |-> "X", src |-> "X",
        filters |-> <<256, 320, 128>>, reduced_filters |-> <<160, 32, 128>>],
       [line |-> 177, op |-> "MaxPooling2D", tgt |-> "X", src |-> "X",
        pool_size |-> <<3, 3>>, strides |-> <<2, 2>>, padding |-> "same"],
       [line |-> 180, op |-> "_inception_block", tgt |-> "X", src |-> "X",
        filters |-> <<256, 320, 128>>, reduced_filters |-> <<160, 32, 128>>],
       [line |-> 183, op |-> "_inception_block", tgt |-> "X", src |-> "X",
        filters |-> <<384, 384, 128>>, reduced_filters |-> <<192, 48, 128>>],
       [line |-> 186, op |-> "AveragePooling2D", tgt |-> "X", src |-> "X",
        pool_size |-> <<7, 7>>, strides |-> <<1, 1>>, padding |-> "valid"],
       [line |-> 187, op |-> "Flatten", tgt |-> "X", src |-> "X"],
       [line |-> 190, op |-> "Dropout", tgt |-> "X", src |-> "X", rate |-> 400],
       [line |-> 193, op |-> "Dense", tgt |-> "X", src |-> "X", units |-> 1000,
        activation |-> "relu", name |-> ""],
       [line |-> 196, op |-> "Dense", tgt |-> "output", src |-> "X", units |-> self.classes,
        activation |-> "softmax", name |-> "output"],
       [line |-> 200, op |-> "Model", tgt |-> "model",
        inputs |-> <<"X_input">>, outputs |-> <<"output", "X_aux_1", "X_aux_2">>] >>

Locals ==
    {"X_input", "X", "X_aux_1", "X_aux_2", "output", "X_1by1", "X_3by3", "X_5by5",
     "X_reduced_3by3", "X_reduced_5by5", "X_max_pooling", "X_concat", "X_average_pool",
     "X_conv", "X_flatten", "X_fc", "X_dropout", "X_aux_output"}

NoLocals == [v \in Locals |-> 0]

NoModel == [arch |-> "", inputs |-> <<>>, outputs |-> <<>>, output_names |-> <<>>]

\* A fresh graph under construction.  batch is the number of images the
\* input carries (google_net leaves it open; one image stands for it).
NewEnv(batch, zero_units_ok) ==
    [nodes |-> <<>>, err |-> "", via |-> 0, batch |-> batch,
     zero_units_ok |-> zero_units_ok, locals |-> NoLocals, model |-> NoModel]

\* Model(inputs=..., outputs=[...]): the output names are the names of the
\* layers that produce the outputs, in the order given.
Model(env, arch, inputs, outputs) ==
    [arch |-> arch, inputs |-> inputs, outputs |-> outputs,
     output_names |-> [i \in 1..Len(outputs) |-> env.nodes[outputs[i]].name]]

\* The value of F at v, with v computed once.
Bind(v, F(_)) == CHOOSE r \in {F(x) : x \in {v}} : TRUE

RECURSIVE Run(_, _, _)

\* A method call: its statements run with fresh locals and X bound to the
\* argument; the graph afterwards, back in the caller's locals, with the
\* tensor the method returns as the last node.
Call(env, stmts, X) ==
    Bind(Run([env EXCEPT !.locals = [NoLocals EXCEPT !["X"] = X]], stmts, 1),
         LAMBDA e : [e EXCEPT !.locals = env.locals])

_naive_inception_block(env, X, filters, kernel_size, pool_size) ==
    Call(env, _naive_inception_block_stmts(filters, kernel_size, pool_size), X)

\* Variant: the pooled branch is concatenated without its 1x1 projection.
_inception_block_unprojected(env, X, filters, reduced_filters, kernel_size, pool_size) ==
    Call(env,
         [_inception_block_stmts(filters, reduced_filters, kernel_size, pool_size)
            EXCEPT ![8].srcs = <<"X_1by1", "X_3by3", "X_5by5", "X_max_pooling">>],
         X)

_inception_block(env, X, filters, reduced_filters, kernel_size, pool_size) ==
    Call(env, _inception_block_stmts(filters, reduced_filters, kernel_size, pool_size), X)

\* Variant: the output layer of the head is left unnamed.
_auxiliary_classifier_unnamed(env, self, X, output_name) ==
    Call(env, _auxiliary_classifier_stmts(self, ""), X)

_auxiliary_classifier(env, self, X, output_name) ==
    Call(env, _auxiliary_classifier_stmts(self, output_name), X)

\* The layer or method call of one statement.
Apply(env, st) ==
    CASE st.op = "Input" -> Input(env, st.shape, st.line)
      [] st.op = "Conv2D" ->
           Conv2D(env, env.locals[st.src], st.filters, st.kernel_size, st.strides,
                  st.padding, st.line)
      [] st.op = "MaxPooling2D" ->
           MaxPooling2D(env, env.locals[st.src], st.pool_size, st.strides, st.padding, st.line)
      [] st.op = "AveragePooling2D" ->
           AveragePooling2D(env, env.locals[st.src], st.pool_size, st.strides, st.padding,
                            st.line)
      [] st.op = "Flatten" -> Flatten(env, env.locals[st.src], st.line)
      [] st.op = "Dropout" -> Dropout(env, env.locals[st.src], st.rate, st.line)
      [] st.op = "Dense" ->
           Dense(env, env.locals[st.src], st.units, st.activation, st.name, st.line)
      [] st.op = "concatenate" ->
           concatenate(env, [i \in 1..Len(st.srcs) |-> env.locals[st.srcs[i]]], st.axis,
                       st.line)
      [] st.op = "_inception_block" ->
           Bind(_inception_block([env EXCEPT !.via = st.line], env.locals[st.src],
                                 st.filters, st.reduced_filters,
                                 DefaultKernelSize, DefaultPoolSize),
                LAMBDA e : [e EXCEPT !.via = 0])
      [] st.op = "_auxiliary_classifier" ->
           Bind(_auxiliary_classifier([env EXCEPT !.via = st.line], st.self,
                                      env.locals[st.src], st.output_name),
                LAMBDA e : [e EXCEPT !.via = 0])
      [] st.op = "Model" ->
           [env EXCEPT !.model =
               Model(env, "GoogLeNet",
                     [i \in 1..Len(st.inputs) |-> env.locals[st.inputs[i]]],
                     [i \in 1..Len(st.outputs) |-> env.locals[st.outputs[i]]])]

\* One statement: the call, then the assignment of its result.  After an
\* exception nothing more is executed.
Exec(env, st) ==
    IF env.err # "" THEN env
    ELSE Bind(Apply(env, st),
              LAMBDA e : IF e.err # "" \/ st.op = "Model" THEN e
                         ELSE [e EXCEPT !.locals[st.tgt] = Last(e)])

Run(env, stmts, i) ==
    IF i > Len(stmts) THEN env
    ELSE Bind(Exec(env, stmts[i]), LAMBDA e : Run(e, stmts, i + 1))

\* Variant: the model lists the first auxiliary output before the main one.
google_net_outputs_reordered(self, zero_units_ok) ==
    Run(NewEnv(1, zero_units_ok),
        [google_net_stmts(self) EXCEPT ![25].outputs = <<"X_aux_1", "output", "X_aux_2">>],
        1)

\* Variant: the first auxiliary head is attached after inception 4b.
google_net_aux_after_4b(self, zero_units_ok) ==
    Run(NewEnv(1, zero_units_ok),
        [google_net_stmts(self) EXCEPT ![11] = google_net_stmts(self)[12],
                                       ![12] = google_net_stmts(self)[11]],
        1)

\* GoogLeNet.google_net: the graph under construction after the last
\* statement, or after the statement that raised.
google_net(self, zero_units_ok) ==
    Run(NewEnv(1, zero_units_ok), google_net_stmts(self), 1)

----------------------------------------------------------------------------
(* utils/model.py *)

SupportedModels ==
    {"ResNet50", "MobileNetV1", "MobileNetV2", "GoogLeNet", "VGG16", "VGG13", "VGG11"}

\* Values Cfg.MODEL_TYPE may hold: the supported names and some others.
ModelTypes == SupportedModels \cup {"FooNet", ""}

\* Values Cfg.GOOGLE_NET_INPUT_SIZE may hold.
ConfigInputSizes == {<<224, 224>>, <<32, 32>>}

\* The Config attribute that holds a model's input size.
InputSizeAttr(model_type) ==
    CASE model_type = "ResNet50" -> "RESNET50_INPUT_SIZE"
      [] model_type = "MobileNetV1" -> "MOBILENET_V1_INPUT_SIZE"
      [] model_type = "MobileNetV2" -> "MOBILENET_V2_INPUT_SIZE"
      [] model_type = "GoogLeNet" -> "GOOGLE_NET_INPUT_SIZE"
      [] model_type = "VGG16" -> "VGG16_NET_INPUT_SIZE"
      [] model_type = "VGG13" -> "VGG13_NET_INPUT_SIZE"
      [] model_type = "VGG11" -> "VGG11_NET_INPUT_SIZE"

\* The assembler method get_model calls for each single-output model.
AssemblerOf(model_type) ==
    CASE model_type = "ResNet50" -> "ResNet50.res_net50"
      [] model_type = "MobileNetV1" -> "MobileNetV1.mobile_net_v1"
      [] model_type = "MobileNetV2" -> "MobileNetV2.mobile_net_v2"
      [] model_type = "VGG16" -> "VGG16.vgg16"
      [] model_type = "VGG13" -> "VGG13.vgg13"
      [] model_type = "VGG11" -> "VGG11.vgg11"

\* The optimizer name get_model compiles each single-output model with.
OptimizerOf(model_type) == IF model_type = "MobileNetV2" THEN "sgd" ELSE "adam"

NoOptimizer == [name |-> "", learning_rate |-> 0, momentum |-> 0, nesterov |-> FALSE, serial |-> 0]

\* A call to a collaborator; optimizer is the optimizer created or passed,
\* if the call has one.
Event(fn, optimizer) == [fn |-> fn, optimizer |-> optimizer]

Called(fn) == Event(fn, NoOptimizer)

NotCompiled == [calls |-> 0, optimizer |-> NoOptimizer, loss |-> <<>>, loss_weights |-> <<>>,
                metrics |-> <<>>]

\* SGD(learning_rate, momentum, nesterov); serial tells the objects apart.
SGD(learning_rate, momentum, nesterov, serial) ==
    [name |-> "SGD", learning_rate |-> learning_rate, momentum |-> momentum,
     nesterov |-> nesterov, serial |-> serial]

\* An optimizer given by name: the framework builds it with its defaults.
NamedOptimizer(name) == [NoOptimizer EXCEPT !.name = name]

\* model.compile with one loss: it applies to every output, weight 1.0.
compile(model, compiled, loss, optimizer, metrics) ==
    [calls |-> compiled.calls + 1, optimizer |-> optimizer,
     loss |-> [i \in 1..Len(model.output_names) |-> loss],
     loss_weights |-> [i \in 1..Len(model.output_names) |-> 1000],
     metrics |-> [i \in 1..Len(model.output_names) |-> metrics]]

\* model.compile with losses and metrics keyed by output name and
\* loss_weights given as a list: the list is matched to the model's outputs
\* by position, the dictionaries by name (an output without an entry gets
\* none).
compile_multi(model, compiled, losses, optimizer, loss_weights, metrics) ==
    [calls |-> compiled.calls + 1, optimizer |-> optimizer,
     loss |-> [i \in 1..Len(model.output_names) |->
                 IF model.output_names[i] \in DOMAIN losses
                 THEN losses[model.output_names[i]] ELSE ""],
     loss_weights |-> [i \in 1..Len(model.output_names) |-> loss_weights[i]],
     metrics |-> [i \in 1..Len(model.output_names) |->
                    IF model.output_names[i] \in DOMAIN metrics
                    THEN metrics[model.output_names[i]] ELSE ""]]

NoInputSize == [attr |-> "", value |-> <<>>]

NoResult == [model |-> NoModel, compiled |-> NotCompiled, input_size |-> NoInputSize,
             tensor |-> 0, label |-> ""]

Returned(evs, nodes, res) == [events |-> evs, graph |-> nodes, result |-> res, raised |-> ""]

Raised(evs, msg) == [events |-> evs, graph |-> <<>>, result |-> NoResult, raised |-> msg]

\* Variant: the model is compiled with the optimizer created first.
get_model_GoogLeNet_first_optimizer(cfg, classes_numbers, zero_units_ok) ==
    LET input_size == cfg.GOOGLE_NET_INPUT_SIZE
        google_net_50 == GoogLeNet(input_size, classes_numbers)
        built == google_net(google_net_50, zero_units_ok)
        ev2 == <<Called("GoogLeNet"), Called("GoogLeNet.google_net")>>
        model == built.model
        optimizer_53 == SGD(10, 900, FALSE, 1)
        ev3 == Append(ev2, Event("SGD", optimizer_53))
        losses == [n \in {"output", "output_aux_1", "output_aux_2"} |-> "CategoricalCrossentropy"]
        metrics == [n \in {"output", "output_aux_1", "output_aux_2"} |-> "accuracy"]
        optimizer_62 == SGD(100, 900, FALSE, 2)
        ev4 == Append(ev3, Event("SGD", optimizer_62))
        compiled == compile_multi(model, NotCompiled, losses, optimizer_53,
                                  <<1000, 300, 300>>, metrics)
        ev5 == Append(ev4, Event("compile", optimizer_53))
    IN IF built.err # "" THEN Raised(ev2, built.err)
       ELSE Returned(ev5, built.nodes,
                     [NoResult EXCEPT !.model = model, !.compiled = compiled,
                                      !.input_size = [attr |-> "GOOGLE_NET_INPUT_SIZE",
                                                      value |-> input_size]])

\* get_model, GoogLeNet branch (lines 47-67).
get_model_GoogLeNet(cfg, classes_numbers, zero_units_ok) ==
    LET input_size == cfg.GOOGLE_NET_INPUT_SIZE
        google_net_50 == GoogLeNet(input_size, classes_numbers)
        built == google_net(google_net_50, zero_units_ok)
        ev2 == <<Called("GoogLeNet"), Called("GoogLeNet.google_net")>>
        model == built.model
        optimizer_53 == SGD(10, 900, FALSE, 1)
        ev3 == Append(ev2, Event("SGD", optimizer_53))
        losses == [n \in {"output", "output_aux_1", "output_aux_2"} |-> "CategoricalCrossentropy"]
        metrics == [n \in {"output", "output_aux_1", "output_aux_2"} |-> "accuracy"]
        optimizer_62 == SGD(100, 900, FALSE, 2)
        ev4 == Append(ev3, Event("SGD", optimizer_62))
        compiled == compile_multi(model, NotCompiled, losses, optimizer_62,
                                  <<1000, 300, 300>>, metrics)
        ev5 == Append(ev4, Event("compile", optimizer_62))
    IN IF built.err # "" THEN Raised(ev2, built.err)
       ELSE Returned(ev5, built.nodes,
                     [NoResult EXCEPT !.model = model, !.compiled = compiled,
                                      !.input_size = [attr |-> "GOOGLE_NET_INPUT_SIZE",
                                                      value |-> input_size]])

\* get_model, the six single-output branches.
get_model_single(cfg, classes_numbers) ==
    LET input_size == [attr |-> InputSizeAttr(cfg.MODEL_TYPE), value |-> <<>>]
        model == [NoModel EXCEPT !.arch = cfg.MODEL_TYPE, !.output_names = <<"output">>]
        compiled == compile(model, NotCompiled, "CategoricalCrossentropy",
                            NamedOptimizer(OptimizerOf(cfg.MODEL_TYPE)), "accuracy")
        optimizer == NamedOptimizer(OptimizerOf(cfg.MODEL_TYPE))
    IN Returned(<<Called(cfg.MODEL_TYPE), Called(AssemblerOf(cfg.MODEL_TYPE)),
                  Event("compile", optimizer)>>,
                <<>>,
                [NoResult EXCEPT !.model = model, !.compiled = compiled,
                                 !.input_size = input_size])

\* Variant: the last branch takes every remaining name.
get_model_else_vgg11(cfg, classes_numbers, zero_units_ok) ==
    IF cfg.MODEL_TYPE = "GoogLeNet"
    THEN get_model_GoogLeNet(cfg, classes_numbers, zero_units_ok)
    ELSE IF cfg.MODEL_TYPE \in {"ResNet50", "MobileNetV1", "MobileNetV2", "VGG16", "VGG13"}
    THEN get_model_single(cfg, classes_numbers)
    ELSE get_model_single([cfg EXCEPT !.MODEL_TYPE = "VGG11"], classes_numbers)

get_model(cfg, classes_numbers, zero_units_ok) ==
    IF cfg.MODEL_TYPE = "GoogLeNet"
    THEN get_model_GoogLeNet(cfg, classes_numbers, zero_units_ok)
    ELSE IF cfg.MODEL_TYPE \in {"ResNet50", "MobileNetV1", "MobileNetV2", "VGG16", "VGG13", "VGG11"}
    THEN get_model_single(cfg, classes_numbers)
    ELSE Raised(<<>>, "Exception: Invalid model type!")

\* load_model: the deserializer returns the stored model or raises when the
\* artifact is missing or corrupt.
load_model(cfg, model_path) ==
    IF cfg.MODEL_TYPE \in {"ResNet50", "MobileNetV1", "MobileNetV2", "GoogLeNet",
                           "VGG16", "VGG13", "VGG11"}
    THEN LET input_shape == [attr |-> InputSizeAttr(cfg.MODEL_TYPE),
                             value |-> IF cfg.MODEL_TYPE = "GoogLeNet"
                                       THEN cfg.GOOGLE_NET_INPUT_SIZE ELSE <<>>]
             ev == <<Called("tf.keras.models.load_model")>>
         IN IF model_path.readable
            THEN Returned(ev, <<>>,
                          [NoResult EXCEPT !.model = [NoModel EXCEPT !.arch = model_path.arch],
                                           !.input_size = input_shape])
            ELSE Raised(ev, "OSError: no file or directory found")
    ELSE Raised(<<>>, "Exception: Invalid model type!")

\* Artifacts a path may lead to: readable or not, and of any architecture
\* (the loader does not compare it with Cfg.MODEL_TYPE).
ModelPaths == [readable : BOOLEAN, arch : {"GoogLeNet", "VGG16"}]

----------------------------------------------------------------------------
(* infer_tflite.py *)

CIFAR_10_CLASS_NAMES ==
    <<"airplane", "automobile", "bird", "cat", "deer", "dog", "frog", "horse", "ship", "truck">>

\* An ndarray: its number of dimensions and its value (a number when
\* ndim = 0, a sequence of rows otherwise).  a[i] with a Python index.
ndarray(ndim, val) == [ndim |-> ndim, val |-> val]

getitem(a, i) == ndarray(a.ndim - 1, a.val[i + 1])

RECURSIVE FirstMax(_, _, _)
\* Zero-based index of the first largest entry of v at or after position k,
\* given the best position so far.
FirstMax(v, k, best) ==
    IF k > Len(v) THEN best - 1
    ELSE FirstMax(v, k + 1, IF v[k] > v[best] THEN k ELSE best)

\* np.argmax without axis: the index into the flattened array; a
\* zero-dimensional array has the single index 0.
np_argmax(a) ==
    IF a.ndim = 0 THEN 0
    ELSE IF a.ndim = 1 THEN FirstMax(a.val, 1, 1)
    ELSE LET row == CHOOSE r \in 1..Len(a.val) :
                       /\ \A q \in 1..Len(a.val) : \A j \in 1..Len(a.val[q]) :
                              a.val[q][j] <= a.val[r][FirstMax(a.val[r], 1, 1) + 1]
                       /\ \A q \in 1..(r - 1) : \A j \in 1..Len(a.val[q]) :
                              a.val[q][j] < a.val[r][FirstMax(a.val[r], 1, 1) + 1]
         IN (row - 1) * Len(a.val[1]) + FirstMax(a.val[row], 1, 1)

\* Lines 30-33: the label printed for the output tensor the interpreter
\* returned.
infer_label(output_data) ==
    CIFAR_10_CLASS_NAMES[np_argmax(getitem(getitem(output_data, 0), 0)) + 1]

\* Output tensors of a 10-class classifier: one image, ten probabilities.
OutputTensors == {ndarray(2, <<v>>) : v \in [1..10 -> ProbLevels]}

----------------------------------------------------------------------------
(* The process: Config is fixed at start, then one entry point runs to its
   return or its exception *)

Cfg == [MODEL_TYPE |-> MODEL_TYPE, GOOGLE_NET_INPUT_SIZE |-> GOOGLE_NET_INPUT_SIZE]

NoCall == [fn |-> "", zero_units_ok |-> FALSE, args |-> <<>>]

Init ==
    /\ MODEL_TYPE \in ModelTypes
    /\ GOOGLE_NET_INPUT_SIZE \in
          (IF MODEL_TYPE = "GoogLeNet" THEN ConfigInputSizes ELSE {<<224, 224>>})
    /\ pc = "start"
    /\ call = NoCall
    /\ events = <<>>
    /\ graph = <<>>
    /\ result = NoResult
    /\ raised = ""

Finish(c, o) ==
    /\ pc' = IF o.raised = "" THEN "returned" ELSE "raised"
    /\ call' = c
    /\ events' = o.events
    /\ graph' = o.graph
    /\ result' = o.result
    /\ raised' = o.raised
    /\ UNCHANGED <<MODEL_TYPE, GOOGLE_NET_INPUT_SIZE>>

\* The outcome of a call that builds a graph and returns its last tensor.
TensorOutcome(env) ==
    IF env.err # "" THEN Raised(<<>>, env.err)
    ELSE Returned(<<>>, env.nodes, [NoResult EXCEPT !.tensor = Last(env)])

\* A graph holding only the input feature map X (tensor 1).
WithInput(X) == Input(NewEnv(X[1], FALSE), <<X[2], X[3], X[4]>>, 0)

get_model_call ==
    /\ pc = "start"
    /\ \E classes_numbers \in ClassesNumbers, zero_units_ok \in BOOLEAN :
          Finish([fn |-> "get_model", zero_units_ok |-> zero_units_ok,
                  args |-> [classes_numbers |-> classes_numbers]],
                 get_model(Cfg, classes_numbers, zero_units_ok))

load_model_call ==
    /\ pc = "start"
    /\ \E model_path \in ModelPaths :
          Finish([fn |-> "load_model", zero_units_ok |-> FALSE,
                  args |-> [model_path |-> model_path]],
                 load_model(Cfg, model_path))

google_net_call ==
    /\ pc = "start"
    /\ \E input_shape \in InputShapes, classes \in ClassesNumbers, zero_units_ok \in BOOLEAN :
          LET env == google_net(GoogLeNet(input_shape, classes), zero_units_ok) IN
          Finish([fn |-> "google_net", zero_units_ok |-> zero_units_ok,
                  args |-> [input_shape |-> input_shape, classes |-> classes]],
                 IF env.err # "" THEN Raised(<<>>, env.err)
                 ELSE Returned(<<>>, env.nodes, [NoResult EXCEPT !.model = env.model]))

inception_block_call ==
    /\ pc = "start"
    /\ \E X \in FeatureMaps, filters \in FilterTriples, reduced_filters \in FilterTriples :
          Finish([fn |-> "_inception_block", zero_units_ok |-> FALSE,
                  args |-> [X |-> X, filters |-> filters, reduced_filters |-> reduced_filters]],
                 TensorOutcome(_inception_block(WithInput(X), 1, filters, reduced_filters,
                                                DefaultKernelSize, DefaultPoolSize)))

naive_inception_block_call ==
    /\ pc = "start"
    /\ \E X \in FeatureMaps, filters \in FilterTriples \cup {<<3, 3, 3>>},
          kernel_size \in {DefaultKernelSize, <<<<1, 1>>, <<1, 1>>, <<1, 1>>>>} :
          Finish([fn |-> "_naive_inception_block", zero_units_ok |-> FALSE,
                  args |-> [X |-> X, filters |-> filters, kernel_size |-> kernel_size]],
                 TensorOutcome(_naive_inception_block(WithInput(X), 1, filters, kernel_size,
                                                      DefaultPoolSize)))

\* infer_tflite.py: the interpreter returns some output tensor for the
\* sample image; the script maps it to a label and prints it.
infer_tflite ==
    /\ pc = "start"
    /\ \E output_data \in OutputTensors :
          Finish([fn |-> "infer_tflite", zero_units_ok |-> FALSE,
                  args |-> [output_data |-> output_data]],
                 Returned(<<Called("interpreter.allocate_tensors"),
                            Called("interpreter.set_tensor"),
                            Called("interpreter.invoke"),
                            Called("interpreter.get_tensor"),
                            Called("print")>>,
                          <<>>, [NoResult EXCEPT !.label = infer_label(output_data)]))

Next ==
    \/ get_model_call
    \/ load_model_call
    \/ google_net_call
    \/ inception_block_call
    \/ naive_inception_block_call
    \/ infer_tflite

Spec == Init /\ [][Next]_vars

----------------------------------------------------------------------------
(* Properties *)

Range(f) == {f[i] : i \in DOMAIN f}

\* The entry point fn ran (to its return or its exception); it returned.
Ran(fn) == pc # "start" /\ call.fn = fn
Ret(fn) == pc = "returned" /\ call.fn = fn

\* Zero-based index of the first largest entry of a vector.
ArgmaxOfVector(v) ==
    CHOOSE i \in 0..(Len(v) - 1) :
        /\ \A j \in 1..Len(v) : v[j] <= v[i + 1]
        /\ \A j \in 1..i : v[j] < v[i + 1]

\* C1: the label the inference script prints is the class name at the
\* argmax of the whole ten-entry probability vector of the output tensor.
C1_LabelIsArgmax ==
    Ret("infer_tflite") =>
        result.label =
            CIFAR_10_CLASS_NAMES[ArgmaxOfVector(call.args.output_data.val[1]) + 1]

\* C2: with a configured model name outside the seven supported ones,
\* get_model and load_model raise the invalid-model-type error, return
\* nothing, and have called no assembler, no compile and no deserializer.
C2_UnknownModelTypeRaises ==
    ((Ran("get_model") \/ Ran("load_model")) /\ MODEL_TYPE \notin SupportedModels) =>
        /\ pc = "raised"
        /\ raised = "Exception: Invalid model type!"
        /\ result = NoResult
        /\ graph = <<>>
        /\ events = <<>>

C2_Witness == Ran("get_model") /\ MODEL_TYPE = "FooNet" /\ pc = "raised"

\* C3: a graph returned by google_net has exactly one input node and three
\* outputs named output, output_aux_1, output_aux_2, in that order, each a
\* softmax Dense layer as wide as the class count.
C3_OneInputThreeNamedOutputs ==
    Ret("google_net") =>
        /\ Len(result.model.inputs) = 1
        /\ {i \in DOMAIN graph : graph[i].layer = "Input"} = Range(result.model.inputs)
        /\ result.model.output_names = <<"output", "output_aux_1", "output_aux_2">>
        /\ Len(result.model.outputs) = 3
        /\ \A k \in 1..3 :
              LET out == graph[result.model.outputs[k]] IN
              /\ out.layer = "Dense"
              /\ out.activation = "softmax"
              /\ out.units = call.args.classes
              /\ out.shape = <<1, call.args.classes>>
              /\ out.name = <<"output", "output_aux_1", "output_aux_2">>[k]
        /\ Cardinality(Range(result.model.outputs)) = 3

C3_Witness ==
    /\ Ret("google_net")
    /\ call.args.input_shape = <<224, 224>>
    /\ call.args.classes = 10
    /\ Len(result.model.outputs) = 3

\* The compiled loss weight and loss of the output with the given name.
PositionOf(name) ==
    CHOOSE k \in 1..Len(result.model.output_names) : result.model.output_names[k] = name
WeightOf(name) == result.compiled.loss_weights[PositionOf(name)]
LossOf(name) == result.compiled.loss[PositionOf(name)]

\* C4: for GoogLeNet, get_model compiles with loss weight 1.0 on output and
\* 0.3 on output_aux_1 and on output_aux_2, each output with a categorical
\* cross-entropy loss.
C4_LossWeights ==
    (Ret("get_model") /\ MODEL_TYPE = "GoogLeNet") =>
        /\ Range(result.model.output_names) = {"output", "output_aux_1", "output_aux_2"}
        /\ WeightOf("output") = 1000
        /\ WeightOf("output_aux_1") = 300
        /\ WeightOf("output_aux_2") = 300
        /\ WeightOf("output") > WeightOf("output_aux_1")
        /\ WeightOf("output_aux_1") = WeightOf("output_aux_2")
        /\ \A n \in {"output", "output_aux_1", "output_aux_2"} :
              LossOf(n) = "CategoricalCrossentropy"

C4_Witness ==
    /\ Ret("get_model")
    /\ MODEL_TYPE = "GoogLeNet"
    /\ call.args.classes_numbers = 10
    /\ result.compiled.loss_weights = <<1000, 300, 300>>

\* C5: _inception_block returns a feature map with
\* filters[0] + filters[1] + filters[2] + reduced_filters[2] channels,
\* whatever the input's channels and the two other reduction widths.
C5_InceptionChannels ==
    Ran("_inception_block") =>
        /\ pc = "returned"
        /\ graph[result.tensor].shape[4] =
              call.args.filters[1] + call.args.filters[2] + call.args.filters[3]
                + call.args.reduced_filters[3]

C5_Witness ==
    /\ Ret("_inception_block")
    /\ call.args.X = <<2, 6, 6, 3>>
    /\ call.args.filters = <<1, 2, 1>>
    /\ call.args.reduced_filters = <<2, 1, 2>>
    /\ graph[result.tensor].shape = <<2, 6, 6, 6>>

\* The input of a block call has height and width above the largest kernel.
LargeInput == call.args.X[2] > 5 /\ call.args.X[3] > 5

\* C6: on inputs larger than the largest kernel, _inception_block keeps the
\* height and width, and _naive_inception_block returns a strictly smaller
\* height and width on which its four branches agree.
C6_SpatialSize ==
    /\ (Ran("_inception_block") /\ LargeInput) =>
          /\ pc = "returned"
          /\ graph[result.tensor].shape[2] = call.args.X[2]
          /\ graph[result.tensor].shape[3] = call.args.X[3]
    /\ (Ran("_naive_inception_block") /\ LargeInput) =>
          /\ pc = "returned"
          /\ graph[result.tensor].shape[2] < call.args.X[2]
          /\ graph[result.tensor].shape[3] < call.args.X[3]
          /\ \A b \in Range(graph[result.tensor].inputs) :
                /\ graph[b].shape[2] = graph[result.tensor].shape[2]
                /\ graph[b].shape[3] = graph[result.tensor].shape[3]

\* The half of C6 about _inception_block alone.
InceptionKeepsSpatialSize ==
    Ran("_inception_block") =>
        /\ pc = "returned"
        /\ graph[result.tensor].shape[2] = call.args.X[2]
        /\ graph[result.tensor].shape[3] = call.args.X[3]

\* C7: _naive_inception_block feeds the same input to its four branches and
\* concatenates them along the channel axis in the order 1x1, 3x3, 5x5,
\* pooled: the result has filters[0] + filters[1] + filters[2] + input
\* channels and the input's batch size.
C7_NaiveConcatChannels ==
    Ret("_naive_inception_block") =>
        LET out == graph[result.tensor] IN
        /\ out.layer = "Concatenate"
        /\ Len(out.inputs) = 4
        /\ \A k \in 1..4 : graph[out.inputs[k]].inputs = <<1>>
        /\ [k \in 1..4 |-> graph[out.inputs[k]].at] = <<29, 32, 35, 38>>
        /\ out.shape[4] =
              call.args.filters[1] + call.args.filters[2] + call.args.filters[3]
                + call.args.X[4]
        /\ out.shape[1] = call.args.X[1]

\* With its default kernel sizes the naive block never returns.
NaiveDefaultNeverReturns ==
    (Ran("_naive_inception_block") /\ call.args.kernel_size = DefaultKernelSize) =>
        pc = "raised"

\* ceil(n / 2^k)
RECURSIVE Halved(_, _)
Halved(n, k) == IF k = 0 THEN n ELSE Halved((n + 1) \div 2, k - 1)

\* A side of the input too small for some stage: empty at the start, below
\* the 5x5 window of the auxiliary heads after four halvings, or below the
\* 7x7 window of the last pooling after five.
Collapses(n) ==
    \/ n <= 0
    \/ ((Halved(n, 4) - 5) \div 3) + 1 <= 0
    \/ (Halved(n, 5) - 7) + 1 <= 0

\* C8: building GoogLeNet with a class count <= 0 or an input too small for
\* some stage ends in an error and returns no model.
C8_BadParametersRaise ==
    (/\ Ran("google_net")
     /\ \/ call.args.classes <= 0
        \/ Collapses(call.args.input_shape[1])
        \/ Collapses(call.args.input_shape[2])) =>
        /\ pc = "raised"
        /\ result.model = NoModel

\* The parts of C8 about the input size and about a negative class count.
SmallInputRaises ==
    (/\ Ran("google_net")
     /\ \/ call.args.classes < 0
        \/ Collapses(call.args.input_shape[1])
        \/ Collapses(call.args.input_shape[2])) =>
        /\ pc = "raised"
        /\ result.model = NoModel

\* Statements of google_net on the main trunk, by line, and what each adds.
TrunkLines ==
    <<126, 129, 133, 136, 140, 144, 147, 150, 153, 156, 162, 165, 168, 174, 177, 180,
      183, 186, 187, 190, 193, 196>>

TrunkKinds ==
    <<"Input", "Conv2D", "MaxPooling2D", "Conv2D", "Conv2D", "MaxPooling2D",
      "inception", "inception", "MaxPooling2D",
      "inception", "inception", "inception", "inception", "inception", "MaxPooling2D",
      "inception", "inception", "AveragePooling2D", "Flatten", "Dropout", "Dense", "Dense">>

HeadLines == {159, 171}

\* The nodes a statement of google_net added, the tensor it produced, the
\* tensors it read from outside, and what it is.
NodesVia(line) == {i \in DOMAIN graph : graph[i].via = line}
OutOf(line) == CHOOSE i \in NodesVia(line) : \A j \in NodesVia(line) : j <= i
ExternalInputs(line) ==
    UNION {Range(graph[i].inputs) : i \in NodesVia(line)} \ NodesVia(line)
KindVia(line) ==
    IF Cardinality(NodesVia(line)) = 1 THEN graph[OutOf(line)].layer
    ELSE IF /\ Cardinality(NodesVia(line)) = 8
            /\ graph[OutOf(line)].layer = "Concatenate"
            /\ Len(graph[OutOf(line)].inputs) = 4
         THEN "inception"
    ELSE IF /\ Cardinality(NodesVia(line)) = 6
            /\ graph[OutOf(line)].layer = "Dense"
            /\ graph[OutOf(line)].activation = "softmax"
         THEN "head"
    ELSE "other"

\* S and the inputs of its nodes.
WithInputs(S) == S \cup UNION {Range(graph[i].inputs) : i \in S}

RECURSIVE Iterate(_, _)
\* WithInputs applied 2^k times to S.
Iterate(S, k) ==
    IF k = 0 THEN WithInputs(S)
    ELSE Bind(Iterate(S, k - 1), LAMBDA T : Iterate(T, k - 1))

\* The nodes the tensor t depends on: the closure of its inputs (2^7 steps
\* reach the fixpoint of any graph of at most 128 nodes).
Ancestors(t) == Iterate(Range(graph[t].inputs), 7)

\* C9: the trunk is the chain stem, 3a, 3b, pool, 4a .. 4e, pool, 5a, 5b,
\* average pool, flatten, dropout(0.4), dense(1000), dense(classes); head 1
\* reads the output of 4a and head 2 the output of 4d; 4b reads exactly what
\* 4a produced and 4e what 4d produced; no head node is an ancestor of a
\* trunk node or of the output named output.
C9_TrunkAndTaps ==
    Ret("google_net") =>
        /\ \A i \in DOMAIN graph : \A j \in Range(graph[i].inputs) : j < i
        /\ \A i \in DOMAIN graph : graph[i].via \in Range(TrunkLines) \cup HeadLines
        /\ \A k \in 1..Len(TrunkLines) :
              /\ NodesVia(TrunkLines[k]) # {}
              /\ KindVia(TrunkLines[k]) = TrunkKinds[k]
              /\ ExternalInputs(TrunkLines[k]) =
                    IF k = 1 THEN {} ELSE {OutOf(TrunkLines[k - 1])}
        /\ graph[OutOf(186)].pool_size = <<7, 7>>
        /\ graph[OutOf(190)].rate = 400
        /\ graph[OutOf(193)].units = 1000
        /\ graph[OutOf(196)].units = call.args.classes
        /\ graph[OutOf(196)].name = "output"
        /\ \A h \in HeadLines : KindVia(h) = "head"
        /\ ExternalInputs(159) = {OutOf(156)}
        /\ ExternalInputs(171) = {OutOf(168)}
        /\ ExternalInputs(162) = {OutOf(156)}
        /\ ExternalInputs(174) = {OutOf(168)}
        /\ result.model.outputs = <<OutOf(196), OutOf(159), OutOf(171)>>
        /\ LET heads == NodesVia(159) \cup NodesVia(171) IN
           /\ \A i \in DOMAIN graph \ heads : Range(graph[i].inputs) \cap heads = {}
           /\ Len(graph) <= 128
           /\ WithInputs(Ancestors(OutOf(196))) = Ancestors(OutOf(196))
           /\ Ancestors(OutOf(196)) \cap heads = {}
           /\ Ancestors(OutOf(196)) \cup {OutOf(196)} = DOMAIN graph \ heads

C9_Witness ==
    /\ Ret("google_net")
    /\ call.args.input_shape = <<193, 224>>
    /\ call.args.classes = 2
    /\ Len(graph) = 97
    /\ graph[OutOf(159)].name = "output_aux_1"

\* The events of the call with the given name, in order.
EventsOf(fn) == SelectSeq(events, LAMBDA e : e.fn = fn)

\* C10: in the GoogLeNet branch of get_model two SGD optimizers are
\* created, learning rate 0.01 then 0.1, both with momentum 0.9; the model
\* is compiled once, after both, with the second; the first never reaches
\* the model.
C10_SecondOptimizerCompiled ==
    (Ret("get_model") /\ MODEL_TYPE = "GoogLeNet") =>
        /\ Len(EventsOf("SGD")) = 2
        /\ EventsOf("SGD")[1].optimizer.learning_rate = 10
        /\ EventsOf("SGD")[2].optimizer.learning_rate = 100
        /\ \A k \in 1..2 : EventsOf("SGD")[k].optimizer.momentum = 900
        /\ Len(EventsOf("compile")) = 1
        /\ events[Len(events)].fn = "compile"
        /\ events[Len(events)].optimizer = EventsOf("SGD")[2].optimizer
        /\ events[Len(events)].optimizer # EventsOf("SGD")[1].optimizer
        /\ result.compiled.calls = 1
        /\ result.compiled.optimizer = EventsOf("SGD")[2].optimizer
        /\ result.compiled.optimizer.learning_rate = 100

C10_Witness ==
    /\ Ret("get_model")
    /\ MODEL_TYPE = "GoogLeNet"
    /\ call.args.classes_numbers = 1
    /\ Len(events) = 5
    /\ result.compiled.optimizer.name = "SGD"

====
